---- MODULE Spec2Model ----
(***************************************************************************)
(* A model of rattler-server: the expiring single-flight cache             *)
(* (generic_cache.rs), the index cache built on it                         *)
(* (available_packages_cache.rs), the request handler (main.rs) and the    *)
(* mapping of errors to responses (error.rs).                              *)
(*                                                                         *)
(* Every request is one task of the async runtime.  A task takes shared    *)
(* state only through the two DashMaps of the cache; an action of the      *)
(* model is the code between two acquisitions of a shard lock or two       *)
(* suspension points.  A task being polled occupies one of the runtime's   *)
(* worker threads; tasks on different threads interleave freely.           *)
(***************************************************************************)
EXTENDS Integers, Sequences, FiniteSets, TLC

\* ------------------------------------------------------------------ bounds

NumRequests == 2      \* requests (tasks) of a behaviour
MaxTime == 2          \* the clock runs from 0 to MaxTime
Expiration == 1       \* the cache's expiration, in ticks of the clock
NumShards == 2        \* shards of the active_writes DashMap
MaxLen == 5           \* characters of an argument of parse_virtual_package
MaxChannels == 3      \* channels of a request, where the expansion is checked

Requests == 1 .. NumRequests
Shards == 1 .. NumShards

\* ------------------------------------------------------------ small helpers

Range(s) == {s[i] : i \in DOMAIN s}

\* the orders in which the elements of S can be listed
Perms(S) == {s \in [1 .. Cardinality(S) -> S] : \A i, j \in DOMAIN s : s[i] = s[j] => i = j}

RECURSIVE Flatten(_)
Flatten(ss) == IF ss = <<>> THEN <<>> ELSE Head(ss) \o Flatten(Tail(ss))

\* a map as a function on a subset of the keys
MapInsert(m, k, v) == [x \in DOMAIN m \cup {k} |-> IF x = k THEN v ELSE m[x]]
MapRemove(m, k) == [x \in DOMAIN m \ {k} |-> m[x]]
EmptyMap == [x \in {} |-> 0]

\* ------------------------------------------------- external string parsers
\* The parsers of rattler_conda_types are libraries; each is modelled by the
\* set of inputs it accepts.

\* MatchSpec::from_str
ValidMatchSpec(s) == s \in {"foo", "bar"}

\* Platform::from_str
ValidPlatform(s) == s \in {"linux-64", "noarch"}

\* Channel::from_str(channel, channel_config): the channel and the platforms
\* written after its name (none: <<>>, some: a one-element sequence holding them)
Channel_from_str(s) ==
    CASE s = "c" -> [ok |-> TRUE, name |-> "c", platforms |-> <<>>]
      [] s = "c[noarch]" -> [ok |-> TRUE, name |-> "c", platforms |-> << <<"noarch">> >>]
      [] s = "c[linux-64]" -> [ok |-> TRUE, name |-> "c", platforms |-> << <<"linux-64">> >>]
      [] s = "c[noarch,noarch]" ->
            [ok |-> TRUE, name |-> "c", platforms |-> << <<"noarch", "noarch">> >>]
      [] s = "c[noarch,linux-64]" ->
            [ok |-> TRUE, name |-> "c", platforms |-> << <<"noarch", "linux-64">> >>]
      [] OTHER -> [ok |-> FALSE, name |-> "", platforms |-> <<>>]

\* Version::from_str, on a string given as a sequence of characters
ValidVersion(s) == s # <<>> /\ "!" \notin Range(s)

\* PackageName::try_from
ValidPackageName(s) == "!" \notin Range(s)

\* Channel::platform_url: the key of the cache
platform_url(channel, platform) == <<channel.name, platform>>

Keys == {<<"c", "linux-64">>, <<"c", "noarch">>}

\* ------------------------------------------------- parse_virtual_package

RECURSIVE split(_, _)
\* str::split: the pieces of s between the occurrences of sep
split(s, sep) ==
    IF \A i \in DOMAIN s : s[i] # sep THEN <<s>>
    ELSE LET i == CHOOSE i \in DOMAIN s : s[i] = sep /\ \A j \in 1 .. i - 1 : s[j] # sep
         IN <<SubSeq(s, 1, i - 1)>> \o split(SubSeq(s, i + 1, Len(s)), sep)

\* a faulty parser: what follows the build string is ignored
parse_virtual_package_ignoring_rest(virtual_package) ==
    LET parts == split(virtual_package, "=")
        name == parts[1]
        version == IF Len(parts) >= 2 THEN parts[2] ELSE <<"0">>
        build_string == IF Len(parts) >= 3 THEN parts[3] ELSE <<"0">>
    IN IF ~ValidVersion(version)
       THEN [ok |-> FALSE, input |-> virtual_package, error |-> "invalid version"]
       ELSE IF ~ValidPackageName(name)
       THEN [ok |-> FALSE, input |-> virtual_package, error |-> "invalid package name"]
       ELSE [ok |-> TRUE, name |-> name, version |-> version,
             build_string |-> build_string]

parse_virtual_package(virtual_package) ==
    LET parts == split(virtual_package, "=")
        name == parts[1]
        version == IF Len(parts) >= 2 THEN parts[2] ELSE <<"0">>
        build_string == IF Len(parts) >= 3 THEN parts[3] ELSE <<"0">>
    IN IF ~ValidVersion(version)
       THEN [ok |-> FALSE, input |-> virtual_package, error |-> "invalid version"]
       ELSE IF Len(parts) >= 4
       THEN [ok |-> FALSE, input |-> virtual_package, error |-> "too many equals signs"]
       ELSE IF ~ValidPackageName(name)
       THEN [ok |-> FALSE, input |-> virtual_package, error |-> "invalid package name"]
       ELSE [ok |-> TRUE, name |-> name, version |-> version,
             build_string |-> build_string]

\* ------------------------------------------------------------ error.rs

\* ParseError { input, error }
ParseError(input, error) == [input |-> input, error |-> error]

\* ApiError, all variants as one record shape.  kind is the variant; variant is
\* the SolveError variant of Solver and the ValidationError variant of
\* Validation; context is the anyhow context of Internal.
ApiError(kind, variant, url, context, errors) ==
    [kind |-> kind, variant |-> variant, url |-> url, context |-> context,
     errors |-> errors]

Internal(context) == ApiError("Internal", "", <<>>, context, <<>>)
Validation(variant, errors) == ApiError("Validation", variant, <<>>, "", errors)
FetchRepoDataJson(url, cause) == ApiError("FetchRepoDataJson", cause, url, "", <<>>)
Solver(variant) == ApiError("Solver", variant, <<>>, "", <<>>)

SolveErrors == {"Unsolvable", "ParseMatchSpecError", "UnsupportedOperations", "Cancelled"}

\* additional_info of SolveEnvironmentErr: nothing, the url of an index, the
\* parse errors of a validation error, or the solver's text
NoInfo == [tag |-> "none", url |-> <<>>, errors |-> <<>>]
UrlInfo(url) == [tag |-> "url", url |-> url, errors |-> <<>>]
ErrorsInfo(errors) == [tag |-> "errors", url |-> <<>>, errors |-> errors]
TextInfo == [tag |-> "text", url |-> <<>>, errors |-> <<>>]

Response(status, error_kind, message, additional_info, packages) ==
    [status |-> status, error_kind |-> error_kind, message |-> message,
     additional_info |-> additional_info, packages |-> packages]

\* the response of a task that panicked at unreachable!()
Unreachable == Response(0, "unreachable", "", NoInfo, <<>>)

\* Display of ValidationError
ValidationMessage(variant) ==
    CASE variant = "MatchSpecs" -> "invalid match specs"
      [] variant = "VirtualPackage" -> "invalid virtual package"
      [] variant = "Channels" -> "invalid channels"
      [] variant = "Platform" -> "invalid platform"

\* a faulty rewrite: no error is rewritten
rewrite_nothing(api_error) == api_error

rewrite_error(api_error) ==
    IF api_error.kind = "Solver" /\ api_error.variant = "UnsupportedOperations"
    THEN Internal("unsupported operations")
    ELSE api_error

\* a faulty mapping: every error is blamed on the request
map_every_error_as_bad_request(e) == Response(400, "validation", "", NoInfo, <<>>)

\* lines 74-147: the match of response_from_error, on the rewritten error
map_error(e) ==
       CASE e.kind = "Internal" ->
              Response(500, "internal", "", NoInfo, <<>>)
         [] e.kind = "FetchRepoDataJson" ->
              Response(400, "http", "unable to retrieve repodata.json", UrlInfo(e.url), <<>>)
         [] e.kind = "Validation" ->
              Response(400, "validation", ValidationMessage(e.variant),
                       ErrorsInfo(e.errors), <<>>)
         [] e.kind = "Solver" /\ e.variant = "UnsupportedOperations" -> Unreachable
         [] e.kind = "Solver" /\ e.variant = "Unsolvable" ->
              Response(409, "solver", "no solution found for the specified dependencies",
                       TextInfo, <<>>)
         [] e.kind = "Solver" /\ e.variant = "ParseMatchSpecError" ->
              Response(400, "validation", "invalid match spec", TextInfo, <<>>)
         [] e.kind = "Solver" /\ e.variant = "Cancelled" ->
              Response(400, "validation", "solver process cancelled", NoInfo, <<>>)

\* a faulty mapping: an unsolvable request is answered 400
response_unsolvable_as_bad_request(api_error) ==
    LET response == map_error(rewrite_error(api_error))
    IN IF response.status = 409 THEN [response EXCEPT !.status = 400] ELSE response

response_from_error(api_error) == map_error(rewrite_error(api_error))

\* Json(SolveEnvironmentOk { packages })
response_ok(packages) == Response(200, "", "", NoInfo, packages)

\* Result<Vec<RepoDataRecord>, ApiError>
Ok(packages) == [ok |-> TRUE, packages |-> packages, err |-> Internal("")]
Err(e) == [ok |-> FALSE, packages |-> <<>>, err |-> e]

\* ------------------------------ solve_environment_inner: the validation

\* the requests clients send: SolveEnvironment { platform, specs,
\* virtual_packages, channels }
SolveEnvironment(platform, specs, virtual_packages, channels) ==
    [platform |-> platform, specs |-> specs, virtual_packages |-> virtual_packages,
     channels |-> channels]

RECURSIVE invalid_matchspecs(_)
invalid_matchspecs(specs) ==
    IF specs = <<>> THEN <<>>
    ELSE (IF ValidMatchSpec(Head(specs)) THEN <<>>
          ELSE <<ParseError(Head(specs), "invalid match spec")>>)
         \o invalid_matchspecs(Tail(specs))

RECURSIVE invalid_channels(_)
invalid_channels(channels) ==
    IF channels = <<>> THEN <<>>
    ELSE (IF Channel_from_str(Head(channels)).ok THEN <<>>
          ELSE <<ParseError(Head(channels), "invalid channel")>>)
         \o invalid_channels(Tail(channels))

RECURSIVE parsed_channels(_)
parsed_channels(channels) ==
    IF channels = <<>> THEN <<>>
    ELSE (IF Channel_from_str(Head(channels)).ok
          THEN <<Channel_from_str(Head(channels))>> ELSE <<>>)
         \o parsed_channels(Tail(channels))

\* a faulty expansion: the platforms written after a channel are ignored
channels_and_default_platforms(channels, target_platform) ==
    Flatten([c \in 1 .. Len(channels) |->
                <<platform_url(channels[c], target_platform),
                  platform_url(channels[c], "noarch")>>])

\* the (channel, platform) combinations that have their own repodata.json, as
\* the keys of the cache
channels_and_platforms(channels, target_platform) ==
    LET default_platforms == <<target_platform, "noarch">>
        platforms(channel) ==
            IF channel.platforms = <<>> THEN default_platforms
            ELSE channel.platforms[1]
        pairs(channel) ==
            [i \in 1 .. Len(platforms(channel)) |->
                platform_url(channel, platforms(channel)[i])]
    IN Flatten([c \in 1 .. Len(channels) |-> pairs(channels[c])])

\* a faulty validation: the target platform is never rejected
platform_never_rejected(platform) == <<>>

\* lines 160-170: the error of an invalid target platform, if it is one
platform_error(platform) ==
    IF ValidPlatform(platform) THEN <<>>
    ELSE <<ParseError(platform, "invalid platform")>>

\* the part of solve_environment_inner before the first lookup: the error it
\* returns, or the pairs it goes on to look up
validate(payload) ==
    LET bad_specs == invalid_matchspecs(payload.specs)
        vps == [i \in 1 .. Len(payload.virtual_packages) |->
                   parse_virtual_package(payload.virtual_packages[i])]
        bad_vps == {i \in 1 .. Len(vps) : ~vps[i].ok}
        first_bad_vp == CHOOSE i \in bad_vps : \A j \in bad_vps : i <= j
        bad_channels == invalid_channels(payload.channels)
    IN IF bad_specs # <<>>
       THEN [ok |-> FALSE, err |-> Validation("MatchSpecs", bad_specs), pairs |-> <<>>]
       ELSE IF bad_vps # {}
       THEN [ok |-> FALSE,
             err |-> Validation("VirtualPackage",
                        <<ParseError(vps[first_bad_vp].input, vps[first_bad_vp].error)>>),
             pairs |-> <<>>]
       ELSE IF bad_channels # <<>>
       THEN [ok |-> FALSE, err |-> Validation("Channels", bad_channels), pairs |-> <<>>]
       ELSE IF platform_error(payload.platform) # <<>>
       THEN [ok |-> FALSE,
             err |-> Validation("Platform", platform_error(payload.platform)),
             pairs |-> <<>>]
       ELSE [ok |-> TRUE, err |-> Internal(""),
             pairs |-> channels_and_platforms(parsed_channels(payload.channels),
                                              payload.platform)]

\* ------------------------------------------------------ the requests sent

Payloads ==
    { SolveEnvironment("linux-64", <<"foo">>, << <<"u">> >>, <<"c">>),
      SolveEnvironment("linux-64", <<"foo">>, << <<"u">> >>, <<"c[noarch]">>),
      SolveEnvironment("linux-64", <<"foo">>, << <<"u">> >>, <<"c[noarch,noarch]">>),
      SolveEnvironment("asdfasdf", <<"foo">>, << <<"u">> >>, <<"c">>),
      SolveEnvironment("linux-64", <<"f o", "foo", "b r">>, <<>>, <<"c">>),
      SolveEnvironment("linux-64", <<"foo">>, << <<"u">>, <<"u", "=", "!">> >>, <<"c">>),
      SolveEnvironment("linux-64", <<"foo">>, <<>>, <<"c[", "c", "[c">>),
      SolveEnvironment("asdfasdf", <<"f o">>, << <<"!">> >>, <<"c[">>) }

\* -------------------------------------------------------------- the state

VARIABLES
    solver,             \* AppState.solver: "Resolvo" or "Libsolvc"
    conc,               \* AppState.concurrent_repodata_downloads_per_request
    shard_of,           \* the shard of active_writes each key hashes to
    worker_threads,     \* the worker threads of the async runtime
    now,                \* Instant::now()
    cached_data,        \* GenericCache.cached_data: key -> (value, instant)
    active_writes,      \* GenericCache.active_writes: key -> the lock, named by
                        \* the lookup that created it
    expired_keys,       \* gc: expired_keys, while gc removes them
    gc_snapshot,        \* cached_data and now when gc was called, while
                        \* gc_alone
    gc_alone,           \* gc marked keys and nothing else has run since it
                        \* was called
    pc,                 \* the request: "new", "lookups", "done" or "cancelled"
    payload,            \* the request's body, while the request is handled
    pairs,              \* the request's channels_and_platforms, as keys
    lookup,             \* the request's lookups: where each get(pair) is
    available_packages, \* the values collected so far, in the order collected
    awaited,            \* lookup -> the lock its get_cached has last been
                        \* suspended on, until the lookup returns
    last_response,      \* the latest response sent, with the request answered
    last_set,           \* key -> the (value, instant) of the latest set
    vp_input,           \* parse_virtual_package: its argument, as characters
    vp_parsed           \* parse_virtual_package: what it returned

config == <<solver, conc, shard_of, worker_threads>>
cache == <<cached_data, active_writes>>
gcaux == <<gc_snapshot, gc_alone>>
reqvars == <<pc, payload, pairs, lookup, available_packages, awaited>>
parsing == <<vp_input, vp_parsed>>
vars == <<config, now, cache, expired_keys, gcaux, reqvars, last_response, last_set,
          parsing>>

NoPayload == SolveEnvironment("", <<>>, <<>>, <<>>)
NoSnapshot == [data |-> EmptyMap, at |-> 0]
NotParsed == [ok |-> FALSE, input |-> <<>>, error |-> "not called"]

\* parse_virtual_package is called by solve_environment_inner only
NoParse == vp_input = <<>> /\ vp_parsed = NotParsed

\* a request answered: its body, what solve_environment_inner returned, the
\* response made of it, and where the request's lookups were at that moment
Answered(r, p, res, resp, lookups, collected) ==
    [request |-> r, payload |-> p, result |-> res, response |-> resp,
     lookup |-> lookups, available_packages |-> collected]

NoneAnswered ==
    Answered(0, NoPayload, Err(Internal("")), Response(0, "", "", NoInfo, <<>>), <<>>, <<>>)

\* the shard of the first key is called 1
ShardMaps == {f \in [Keys -> Shards] : f[<<"c", "linux-64">>] = 1}

InitState ==
    /\ now = 0
    /\ cached_data = EmptyMap
    /\ active_writes = EmptyMap
    /\ expired_keys = <<>>
    /\ gc_snapshot = NoSnapshot
    /\ gc_alone = FALSE
    /\ pc = [r \in Requests |-> "new"]
    /\ payload = [r \in Requests |-> NoPayload]
    /\ pairs = [r \in Requests |-> <<>>]
    /\ lookup = [r \in Requests |-> <<>>]
    /\ available_packages = [r \in Requests |-> <<>>]
    /\ awaited = EmptyMap
    /\ last_response = NoneAnswered
    /\ last_set = EmptyMap

Init ==
    /\ solver \in {"Resolvo", "Libsolvc"}
    /\ conc = 1
    /\ shard_of \in ShardMaps
    /\ worker_threads = NumRequests + 1
    /\ InitState
    /\ NoParse

\* ------------------------------------------------- the state of a lookup

\* a lookup is a future of the request's task.  Suspended at an await:
Suspended == {"waiting", "fetch", "precompute"}
\* being polled, between two awaits:
Busy == {"check", "entry", "load", "set_insert", "set_release", "set_remove"}
InFlight == Suspended \cup Busy

Lookups == UNION {{<<r, i>> : i \in DOMAIN lookup[r]} : r \in Requests}
KeyOf(l) == pairs[l[1]][l[2]]
At(l) == lookup[l[1]][l[2]]

\* the lookup holds the OwnedRwLockWriteGuard of the lock it created
WriteGuardHeld(l) ==
    l \in Lookups
    /\ At(l) \in {"fetch", "load", "precompute", "set_insert", "set_release"}

\* a reader suspended in e.get().read().await keeps the Entry, hence the write
\* lock of the key's shard of active_writes
ShardHeld(s) == \E l \in Lookups : At(l) = "waiting" /\ shard_of[KeyOf(l)] = s

\* the task of request r is polling no other future than its lookup i
Polls(r, i) == \A j \in DOMAIN lookup[r] : j # i => lookup[r][j] \notin Busy

\* cache_gc_task, among the tasks of the requests
GcTask == 0

\* the tasks that occupy a worker thread: a request's task while one of its
\* lookups is being polled, and cache_gc_task while gc removes the keys it marked
Running ==
    {r \in Requests : \E i \in DOMAIN lookup[r] : lookup[r][i] \in Busy}
    \cup (IF expired_keys # <<>> THEN {GcTask} ELSE {})

\* a worker thread is free to poll task t
CanRun(t) == Cardinality(Running \ {t}) < worker_threads

\* nothing else has run since gc was called: every action but gc's says so
Disturb ==
    /\ gc_alone' = FALSE
    /\ gc_snapshot' = NoSnapshot

\* --------------------------------------------- how a request's task ends

\* the futures of the task are dropped: those in flight release what they hold
DropLookups(r, failed) ==
    [j \in DOMAIN lookup[r] |->
        IF j = failed THEN "failed"
        ELSE IF lookup[r][j] \in InFlight THEN "dropped"
        ELSE lookup[r][j]]

\* the task of request r is over and its state is gone
Ends(r, how) ==
    /\ pc' = [pc EXCEPT ![r] = how]
    /\ payload' = [payload EXCEPT ![r] = NoPayload]
    /\ pairs' = [pairs EXCEPT ![r] = <<>>]
    /\ lookup' = [lookup EXCEPT ![r] = <<>>]
    /\ available_packages' = [available_packages EXCEPT ![r] = <<>>]
    /\ awaited' = [l \in {x \in DOMAIN awaited : x[1] # r} |-> awaited[l]]

\* a faulty handler: the error of a lookup is swallowed and the request is
\* answered as if the solver had run and found nothing to install
fail_swallowed(r, p, failed, e) ==
    /\ last_response' =
          Answered(r, p, IF failed = 0 THEN Err(e) ELSE Ok(<<>>),
                   IF failed = 0 THEN response_from_error(e) ELSE response_ok(<<>>),
                   DropLookups(r, failed), available_packages[r])
    /\ Ends(r, "done")

\* solve_environment_inner returns Err(e) and solve_environment answers it;
\* failed is the lookup that returned the error (0: none)
Fail(r, p, failed, e) ==
    /\ last_response' = Answered(r, p, Err(e), response_from_error(e),
                                 DropLookups(r, failed), available_packages[r])
    /\ Ends(r, "done")

\* ------------------------------------------------------ solve_environment

\* the handler up to its first await: the body is validated and the pairs to
\* look up are computed, or the request is rejected
solve_environment(r) ==
    /\ pc[r] = "new"
    /\ \A q \in 1 .. r - 1 : pc[q] # "new"
    /\ CanRun(r)
    /\ \E p \in Payloads :
        LET v == validate(p)
        IN IF v.ok
           THEN /\ payload' = [payload EXCEPT ![r] = p]
                /\ pairs' = [pairs EXCEPT ![r] = v.pairs]
                /\ lookup' = [lookup EXCEPT ![r] = [i \in DOMAIN v.pairs |-> "stream"]]
                /\ pc' = [pc EXCEPT ![r] = "lookups"]
                /\ UNCHANGED <<available_packages, awaited, last_response>>
           ELSE Fail(r, p, 0, v.err)
    /\ Disturb
    /\ UNCHANGED <<parsing, config, now, cache, expired_keys, last_set>>

\* a faulty stream: every pair becomes a future in flight at once
start_unbounded(r) ==
    /\ pc[r] = "lookups"
    /\ CanRun(r)
    /\ \E i \in DOMAIN lookup[r] :
        /\ lookup[r][i] = "stream"
        /\ \A j \in 1 .. i - 1 : lookup[r][j] # "stream"
        /\ Polls(r, i)
        /\ lookup' = [lookup EXCEPT ![r][i] = "check"]
    /\ Disturb
    /\ UNCHANGED <<parsing, config, now, cache, expired_keys, pc, payload, pairs,
                   available_packages, awaited, last_response, last_set>>

\* buffer_unordered(n): the next pair of the stream becomes a future in flight
\* while fewer than n are
StartLookup(r) ==
    /\ pc[r] = "lookups"
    /\ CanRun(r)
    /\ \E i \in DOMAIN lookup[r] :
        /\ lookup[r][i] = "stream"
        /\ \A j \in 1 .. i - 1 : lookup[r][j] # "stream"
        /\ Cardinality({j \in DOMAIN lookup[r] : lookup[r][j] \in InFlight}) < conc
        /\ Polls(r, i)
        /\ lookup' = [lookup EXCEPT ![r][i] = "check"]
    /\ Disturb
    /\ UNCHANGED <<parsing, config, now, cache, expired_keys, pc, payload, pairs,
                   available_packages, awaited, last_response, last_set>>

\* --------------------------------------------- GenericCache::get_cached

\* a faulty reader: no entry is ever taken to be stale
is_stale_never(entry, instant) == FALSE

\* line 64: the entry is stale
is_stale(entry, instant) == instant > entry.at + Expiration

\* lines 63-70: the top of the loop
GetCachedCheck(r, i) ==
    LET k == pairs[r][i]
    IN /\ pc[r] = "lookups"
       /\ lookup[r][i] = "check"
       /\ IF k \in DOMAIN cached_data /\ ~is_stale(cached_data[k], now)
          THEN \* Found: get returns the value
               /\ lookup' = [lookup EXCEPT ![r][i] = "done"]
               /\ available_packages' =
                     [available_packages EXCEPT
                         ![r] = Append(@, [pair |-> i, value |-> cached_data[k].value])]
               /\ awaited' = MapRemove(awaited, <<r, i>>)
          ELSE /\ lookup' = [lookup EXCEPT ![r][i] = "entry"]
               /\ UNCHANGED <<available_packages, awaited>>
       /\ Disturb
       /\ UNCHANGED <<parsing, config, now, cache, expired_keys, pc, payload, pairs,
                      last_response, last_set>>

\* a faulty entry(): every entry is taken to be vacant
entry_always_vacant(k) == FALSE

\* line 73: the entry of the key is occupied
Occupied(k) == k \in DOMAIN active_writes

\* lines 73-95: active_writes.entry(key), which takes the write lock of the
\* key's shard.  Occupied: read().await, suspended while the writer holds its
\* guard.  Vacant: the lock is created, locked and inserted, and the caller
\* gets the token
GetCachedEntry(r, i) ==
    LET k == pairs[r][i]
    IN /\ pc[r] = "lookups"
       /\ lookup[r][i] = "entry"
       /\ ~ShardHeld(shard_of[k])
       /\ IF Occupied(k)
          THEN IF WriteGuardHeld(active_writes[k])
               THEN /\ lookup' = [lookup EXCEPT ![r][i] = "waiting"]
                    /\ awaited' = MapInsert(awaited, <<r, i>>, active_writes[k])
                    /\ UNCHANGED active_writes
               ELSE /\ lookup' = [lookup EXCEPT ![r][i] = "check"]
                    /\ UNCHANGED <<active_writes, awaited>>
          ELSE /\ active_writes' = MapInsert(active_writes, k, <<r, i>>)
               /\ lookup' = [lookup EXCEPT ![r][i] = "fetch"]
               /\ UNCHANGED awaited
       /\ Disturb
       /\ UNCHANGED <<parsing, config, now, cached_data, expired_keys, pc, payload, pairs,
                      available_packages, last_response, last_set>>

\* lines 81-82: the writer released its guard; the reader gets the read lock,
\* drops it and the Entry, and loops
GetCachedWake(r, i) ==
    /\ pc[r] = "lookups"
    /\ lookup[r][i] = "waiting"
    /\ Polls(r, i)
    /\ CanRun(r)
    /\ ~WriteGuardHeld(awaited[<<r, i>>])
    /\ lookup' = [lookup EXCEPT ![r][i] = "check"]
    /\ Disturb
    /\ UNCHANGED <<parsing, config, now, cache, expired_keys, pc, payload, pairs,
                   available_packages, awaited, last_response, last_set>>

\* ------------------------------------------ AvailablePackagesCache::get

\* what fetch_repo_data and RepoData::from_path can do
FetchOutcomes == {"ok", "network", "status", "decompress", "load"}

\* a faulty get: every failure is reported as an internal error
fetch_error_always_internal(outcome, url) == Internal("loading repo data")

\* lines 56-74: the error of a failed download or load
fetch_error(outcome, url) ==
    IF outcome = "load" THEN Internal("loading repo data")
    ELSE FetchRepoDataJson(url, outcome)

\* lines 56-68: the download of the index, awaited with the token held
FetchRepoData(r, i) ==
    /\ pc[r] = "lookups"
    /\ lookup[r][i] = "fetch"
    /\ Polls(r, i)
    /\ CanRun(r)
    /\ \E outcome \in FetchOutcomes \ {"load"} :
        IF outcome = "ok"
        THEN /\ lookup' = [lookup EXCEPT ![r][i] = "load"]
             /\ UNCHANGED <<pc, payload, pairs, available_packages, awaited,
                            last_response>>
        ELSE Fail(r, payload[r], i, fetch_error(outcome, pairs[r][i]))
    /\ Disturb
    /\ UNCHANGED <<parsing, config, now, cache, expired_keys, last_set>>

\* lines 70-79: RepoData::from_path reads and deserializes the index and
\* into_repo_data_records makes the records of it, called by get itself; then
\* the blocking task of the precompute is spawned (Libsolvc) or the value is
\* complete (Resolvo)
LoadRepoData(r, i) ==
    /\ pc[r] = "lookups"
    /\ lookup[r][i] = "load"
    /\ \E outcome \in {"ok", "load"} :
        IF outcome = "ok"
        THEN /\ lookup' = [lookup EXCEPT ![r][i] =
                              IF solver = "Libsolvc" THEN "precompute" ELSE "set_insert"]
             /\ UNCHANGED <<pc, payload, pairs, available_packages, awaited,
                            last_response>>
        ELSE Fail(r, payload[r], i, fetch_error(outcome, pairs[r][i]))
    /\ Disturb
    /\ UNCHANGED <<parsing, config, now, cache, expired_keys, last_set>>

\* lines 81-92: the .solv file is made by a blocking task, which may panic
Precompute(r, i) ==
    /\ pc[r] = "lookups"
    /\ lookup[r][i] = "precompute"
    /\ Polls(r, i)
    /\ CanRun(r)
    /\ \E outcome \in {"ok", "panic"} :
        IF outcome = "ok"
        THEN /\ lookup' = [lookup EXCEPT ![r][i] = "set_insert"]
             /\ UNCHANGED <<pc, payload, pairs, available_packages, awaited,
                            last_response>>
        ELSE Fail(r, payload[r], i, Internal("panicked while creating .solv file"))
    /\ Disturb
    /\ UNCHANGED <<parsing, config, now, cache, expired_keys, last_set>>

\* ---------------------------------------------------- GenericCache::set

\* lines 101-102: the value is inserted with the instant of the insertion; the
\* value is named by the lookup that fetched it
SetInsert(r, i) ==
    LET k == pairs[r][i]
        entry == [value |-> <<r, i>>, at |-> now]
    IN /\ pc[r] = "lookups"
       /\ lookup[r][i] = "set_insert"
       /\ cached_data' = MapInsert(cached_data, k, entry)
       /\ last_set' = MapInsert(last_set, k, entry)
       /\ lookup' = [lookup EXCEPT ![r][i] = "set_release"]
       /\ Disturb
       /\ UNCHANGED <<parsing, config, now, active_writes, expired_keys, pc, payload, pairs,
                      available_packages, awaited, last_response>>

\* line 105: drop(token.rw_guard)
SetRelease(r, i) ==
    /\ pc[r] = "lookups"
    /\ lookup[r][i] = "set_release"
    /\ lookup' = [lookup EXCEPT ![r][i] = "set_remove"]
    /\ Disturb
    /\ UNCHANGED <<parsing, config, now, cache, expired_keys, pc, payload, pairs,
                   available_packages, awaited, last_response, last_set>>

\* line 108: active_writes.remove(key), which takes the write lock of the key's
\* shard; then get returns the value it fetched
SetRemove(r, i) ==
    LET k == pairs[r][i]
    IN /\ pc[r] = "lookups"
       /\ lookup[r][i] = "set_remove"
       /\ ~ShardHeld(shard_of[k])
       /\ active_writes' = MapRemove(active_writes, k)
       /\ lookup' = [lookup EXCEPT ![r][i] = "done"]
       /\ available_packages' =
             [available_packages EXCEPT ![r] = Append(@, [pair |-> i, value |-> <<r, i>>])]
       /\ awaited' = MapRemove(awaited, <<r, i>>)
       /\ Disturb
       /\ UNCHANGED <<parsing, config, now, cached_data, expired_keys, pc, payload, pairs,
                      last_response, last_set>>

\* ------------------------------------------------------------ the solver

SolveOutcomes == {"ok", "panic"} \cup SolveErrors

\* the records the solver returns, sorted
SolvedPackages == <<"foo", "bar">>

\* lines 196-216: all lookups returned; the solver runs in a blocking task
Solve(r) ==
    /\ pc[r] = "lookups"
    /\ \A i \in DOMAIN lookup[r] : lookup[r][i] = "done"
    /\ CanRun(r)
    /\ \E outcome \in SolveOutcomes :
        CASE outcome = "ok" ->
                /\ last_response' =
                      Answered(r, payload[r], Ok(SolvedPackages),
                               response_ok(SolvedPackages), lookup[r],
                               available_packages[r])
                /\ Ends(r, "done")
          [] outcome = "panic" ->
                Fail(r, payload[r], 0, Internal("solver thread panicked"))
          [] OTHER -> Fail(r, payload[r], 0, Solver(outcome))
    /\ Disturb
    /\ UNCHANGED <<parsing, config, now, cache, expired_keys, last_set>>

\* the client went away: the runtime drops the task at a suspension point
Cancel(r) ==
    /\ pc[r] = "lookups"
    /\ CanRun(r)
    /\ \A i \in DOMAIN lookup[r] : lookup[r][i] \notin Busy
    /\ Ends(r, "cancelled")
    /\ Disturb
    /\ UNCHANGED <<parsing, config, now, cache, expired_keys, last_response, last_set>>

\* ------------------------------------------------------ GenericCache::gc

\* a faulty gc: an entry at the very end of its lifetime is collected
gc_expired_too_early(entry, instant) == instant >= entry.at + Expiration

\* line 39: the entry is expired
gc_expired(entry, instant) == instant > entry.at + Expiration

\* lines 34-45 (and 51-56 when nothing is expired): cache_gc_task calls gc,
\* which iterates over cached_data and marks the expired keys, in the order of
\* the iteration
GcScan ==
    /\ expired_keys = <<>>
    /\ CanRun(GcTask)
    /\ \E marked \in Perms({k \in DOMAIN cached_data : gc_expired(cached_data[k], now)}) :
          /\ expired_keys' = marked
          /\ gc_alone' = (marked # <<>>)
          /\ gc_snapshot' = IF marked # <<>> THEN [data |-> cached_data, at |-> now]
                            ELSE NoSnapshot
    /\ UNCHANGED <<parsing, config, now, cache, reqvars, last_response, last_set>>

\* lines 47-49: the next marked key is removed; gc returns after the last one
GcRemove ==
    /\ expired_keys # <<>>
    /\ cached_data' = MapRemove(cached_data, Head(expired_keys))
    /\ expired_keys' = Tail(expired_keys)
    /\ UNCHANGED <<parsing, gcaux, config, now, active_writes, reqvars, last_response, last_set>>

\* --------------------------------------------------------------- the clock

Tick ==
    /\ now < MaxTime
    /\ now' = now + 1
    /\ Disturb
    /\ UNCHANGED <<parsing, config, cache, expired_keys, reqvars, last_response, last_set>>

\* --------------------------------------------------------------- the system

\* the steps of the task of request r
RequestStep(r) ==
    \/ solve_environment(r)
    \/ StartLookup(r)
    \/ \E i \in DOMAIN lookup[r] : GetCachedCheck(r, i)
    \/ \E i \in DOMAIN lookup[r] : GetCachedEntry(r, i)
    \/ \E i \in DOMAIN lookup[r] : GetCachedWake(r, i)
    \/ \E i \in DOMAIN lookup[r] : FetchRepoData(r, i)
    \/ \E i \in DOMAIN lookup[r] : LoadRepoData(r, i)
    \/ \E i \in DOMAIN lookup[r] : Precompute(r, i)
    \/ \E i \in DOMAIN lookup[r] : SetInsert(r, i)
    \/ \E i \in DOMAIN lookup[r] : SetRelease(r, i)
    \/ \E i \in DOMAIN lookup[r] : SetRemove(r, i)
    \/ Solve(r)

Next ==
    \/ \E r \in Requests : solve_environment(r)
    \/ \E r \in Requests : StartLookup(r)
    \/ \E r \in Requests : \E i \in DOMAIN lookup[r] : GetCachedCheck(r, i)
    \/ \E r \in Requests : \E i \in DOMAIN lookup[r] : GetCachedEntry(r, i)
    \/ \E r \in Requests : \E i \in DOMAIN lookup[r] : GetCachedWake(r, i)
    \/ \E r \in Requests : \E i \in DOMAIN lookup[r] : FetchRepoData(r, i)
    \/ \E r \in Requests : \E i \in DOMAIN lookup[r] : LoadRepoData(r, i)
    \/ \E r \in Requests : \E i \in DOMAIN lookup[r] : Precompute(r, i)
    \/ \E r \in Requests : \E i \in DOMAIN lookup[r] : SetInsert(r, i)
    \/ \E r \in Requests : \E i \in DOMAIN lookup[r] : SetRelease(r, i)
    \/ \E r \in Requests : \E i \in DOMAIN lookup[r] : SetRemove(r, i)
    \/ \E r \in Requests : Solve(r)
    \/ \E r \in Requests : Cancel(r)
    \/ GcScan
    \/ GcRemove
    \/ Tick

Spec == Init /\ [][Next]_vars

\* The runtime polls every task that can run, a download ends, and gc goes on
\* to remove the keys it marked; clients need not go away and the clock need
\* not reach MaxTime.
Fairness ==
    /\ \A r \in Requests : WF_vars(RequestStep(r))
    /\ WF_vars(GcRemove)

\* one configuration of the server, under fair scheduling
FairInit ==
    /\ solver = "Libsolvc"
    /\ conc = 1
    /\ shard_of = [k \in Keys |-> 1]
    /\ worker_threads = NumRequests + 1
    /\ InitState
    /\ NoParse

FairSpec == FairInit /\ [][Next]_vars /\ Fairness

\* the server started with two concurrent downloads per request (cli.rs, -c 2)
ConcInit ==
    /\ solver = "Libsolvc"
    /\ conc = 2
    /\ shard_of = [k \in Keys |-> 1]
    /\ worker_threads = NumRequests + 1
    /\ InitState
    /\ NoParse

ConcSpec == ConcInit /\ [][Next]_vars

\* the server on a machine with one core: #[tokio::main] starts as many worker
\* threads as there are cores
SingleThreadInit ==
    /\ solver = "Libsolvc"
    /\ conc = 1
    /\ shard_of = [k \in Keys |-> 1]
    /\ worker_threads = 1
    /\ InitState
    /\ NoParse

SingleThreadSpec == SingleThreadInit /\ [][Next]_vars /\ Fairness

\* ------------------------------------------ gc between the operations

\* lines 34-56: a call of gc during which no other task touches the cache: the
\* entries expired when it is called are removed, the others stay
gc ==
    /\ expired_keys = <<>>
    /\ CanRun(GcTask)
    /\ cached_data' =
          [k \in {x \in DOMAIN cached_data : ~gc_expired(cached_data[x], now)} |->
              cached_data[k]]
    /\ UNCHANGED <<parsing, gcaux, config, now, active_writes, expired_keys, reqvars,
                   last_response, last_set>>

\* the server when every call of gc falls between the steps of the requests
SweepNext ==
    \/ \E r \in Requests : solve_environment(r)
    \/ \E r \in Requests : StartLookup(r)
    \/ \E r \in Requests : \E i \in DOMAIN lookup[r] : GetCachedCheck(r, i)
    \/ \E r \in Requests : \E i \in DOMAIN lookup[r] : GetCachedEntry(r, i)
    \/ \E r \in Requests : \E i \in DOMAIN lookup[r] : GetCachedWake(r, i)
    \/ \E r \in Requests : \E i \in DOMAIN lookup[r] : FetchRepoData(r, i)
    \/ \E r \in Requests : \E i \in DOMAIN lookup[r] : LoadRepoData(r, i)
    \/ \E r \in Requests : \E i \in DOMAIN lookup[r] : Precompute(r, i)
    \/ \E r \in Requests : \E i \in DOMAIN lookup[r] : SetInsert(r, i)
    \/ \E r \in Requests : \E i \in DOMAIN lookup[r] : SetRelease(r, i)
    \/ \E r \in Requests : \E i \in DOMAIN lookup[r] : SetRemove(r, i)
    \/ \E r \in Requests : Solve(r)
    \/ \E r \in Requests : Cancel(r)
    \/ gc
    \/ Tick

SweepSpec == Init /\ [][SweepNext]_vars

\* ------------------------------------------ channels_and_platforms alone

\* the channels clients write: without platforms, with one, with two in an
\* order that is not the default one, and with the same one twice
ChannelInputs == {"c", "c[noarch]", "c[noarch,linux-64]", "c[noarch,noarch]"}

\* the valid bodies with at most MaxChannels channels
ExpandPayloads ==
    {SolveEnvironment(platform, <<"foo">>, <<>>, channels) :
        platform \in {"linux-64", "noarch"},
        channels \in UNION {[1 .. n -> ChannelInputs] : n \in 0 .. MaxChannels}}

\* one request has come in, with any of these bodies
ExpandInit ==
    /\ solver = "Resolvo"
    /\ conc = 1
    /\ shard_of = [k \in Keys |-> 1]
    /\ worker_threads = NumRequests + 1
    /\ now = 0
    /\ cached_data = EmptyMap
    /\ active_writes = EmptyMap
    /\ expired_keys = <<>>
    /\ gc_snapshot = NoSnapshot
    /\ gc_alone = FALSE
    /\ pc = [r \in Requests |-> "new"]
    /\ payload \in {[r \in Requests |-> IF r = 1 THEN p ELSE NoPayload] :
                       p \in ExpandPayloads}
    /\ pairs = [r \in Requests |-> <<>>]
    /\ lookup = [r \in Requests |-> <<>>]
    /\ available_packages = [r \in Requests |-> <<>>]
    /\ awaited = EmptyMap
    /\ last_response = NoneAnswered
    /\ last_set = EmptyMap
    /\ NoParse

\* lines 103-184 and the stream of line 187: solve_environment_inner, given the
\* body of the first request, up to the stream of the pairs to look up
ExpandChannels ==
    LET v == validate(payload[1])
    IN /\ pc[1] = "new"
       /\ v.ok
       /\ pairs' = [pairs EXCEPT ![1] = v.pairs]
       /\ lookup' = [lookup EXCEPT ![1] = [i \in DOMAIN v.pairs |-> "stream"]]
       /\ pc' = [pc EXCEPT ![1] = "lookups"]
       /\ UNCHANGED <<parsing, config, now, cache, expired_keys, gcaux, payload,
                      available_packages, awaited, last_response, last_set>>

ExpandSpec == ExpandInit /\ [][ExpandChannels]_vars

\* ------------------------------------------- parse_virtual_package alone

\* the characters of the arguments: one a name or a version can be made of,
\* the separator, and one neither a name nor a version can hold
Characters == {"u", "=", "!"}

\* the strings of at most MaxLen characters
VirtualPackageInputs == UNION {[1 .. n -> Characters] : n \in 0 .. MaxLen}

ParseInit ==
    /\ solver = "Resolvo"
    /\ conc = 1
    /\ shard_of = [k \in Keys |-> 1]
    /\ worker_threads = NumRequests + 1
    /\ InitState
    /\ vp_input \in VirtualPackageInputs
    /\ vp_parsed = NotParsed

\* parse_virtual_package(vp_input) is called and returns
ParseVirtualPackage ==
    /\ vp_parsed = NotParsed
    /\ vp_parsed' = parse_virtual_package(vp_input)
    /\ UNCHANGED <<vp_input, config, now, cache, expired_keys, gcaux, reqvars,
                   last_response, last_set>>

ParseSpec == ParseInit /\ [][ParseVirtualPackage]_vars

\* ================================================================ properties

\* The positions a lookup can have in the list of a request's pairs.
Positions == UNION {DOMAIN validate(p).pairs : p \in Payloads}

\* The lookups of key k that hold its write token (from the Vacant arm of
\* get_cached until set has released the guard).
TokenHolders(k) == {l \in Lookups : KeyOf(l) = k /\ WriteGuardHeld(l)}

FreshPart(data, instant) ==
    [k \in {x \in DOMAIN data : instant <= data[x].at + Expiration} |-> data[k]]

\* gc has returned and nothing else ran since it was called
GcRanAlone == gc_alone /\ expired_keys = <<>>

\* C5: gc collects only expired entries.  When gc ran with no concurrent
\* operation, the entry map holds afterwards exactly the entries that were fresh
\* when gc was called, with their values and instants; and gc marks a key only
\* if the key's entry is stale, so when nothing is stale it marks nothing and
\* changes nothing.
C5_GcCollectsOnlyExpired ==
    /\ [](GcRanAlone => cached_data = FreshPart(gc_snapshot.data, gc_snapshot.at))
    /\ [][/\ expired_keys' # expired_keys /\ expired_keys = <<>>
             => /\ cached_data' = cached_data
                /\ \A k \in Range(expired_keys') :
                      k \in DOMAIN cached_data /\ now > cached_data[k].at + Expiration
          /\ (\A k \in DOMAIN cached_data : now <= cached_data[k].at + Expiration)
             /\ expired_keys = <<>> /\ now' = now
             => expired_keys' = <<>> /\ DOMAIN cached_data \subseteq DOMAIN cached_data']_vars

\* C5's case: gc ran alone on a map with a stale and a fresh entry; the stale
\* one is gone and the fresh one is still there.
C5_Witness ==
    /\ GcRanAlone
    /\ cached_data # EmptyMap
    /\ DOMAIN cached_data # DOMAIN gc_snapshot.data

\* ------------------------------------------------------------------- C7
\* the status the taxonomy gives for an error
TaxonomyStatus(e) ==
    CASE e.kind = "Internal" -> 500
      [] e.kind = "Validation" -> 400
      [] e.kind = "FetchRepoDataJson" -> 400
      [] e.kind = "Solver" /\ e.variant = "Unsolvable" -> 409
      [] e.kind = "Solver" /\ e.variant = "ParseMatchSpecError" -> 400
      [] e.kind = "Solver" /\ e.variant = "Cancelled" -> 400
      [] e.kind = "Solver" /\ e.variant = "UnsupportedOperations" -> 500

\* C7: every error that reaches solve_environment is answered with the status
\* of the taxonomy; no error is recovered on the way (a request one of whose
\* lookups failed is answered with an error), and 200 is the answer of a
\* successful solve only, all of whose lookups returned a value.
C7_ErrorTaxonomy ==
    last_response.request # 0 =>
        LET a == last_response
        IN /\ ~a.result.ok =>
                /\ a.response.status = TaxonomyStatus(a.result.err)
                /\ a.response.packages = <<>>
           /\ a.response.status = 200 <=> a.result.ok
           /\ a.result.ok =>
                /\ a.response.packages = a.result.packages
                /\ a.lookup # <<>>
                /\ \A i \in DOMAIN a.lookup : a.lookup[i] = "done"
                /\ Len(a.available_packages) = Len(a.lookup)

\* C7's case: the solver found no solution and the request is answered 409.
C7_Witness ==
    /\ last_response.request # 0
    /\ ~last_response.result.ok
    /\ last_response.result.err = Solver("Unsolvable")
    /\ last_response.response.status = 409

\* ------------------------------------------------------------------- C8
\* the errors the handler can be given
ApiErrors ==
    {Internal(c) : c \in {"loading repo data", "solver thread panicked"}}
    \cup {Solver(v) : v \in SolveErrors}
    \cup {FetchRepoDataJson(k, c) : k \in Keys, c \in FetchOutcomes \ {"ok", "load"}}
    \cup {validate(p).err : p \in {q \in Payloads : ~validate(q).ok}}

\* C8: the solver error UnsupportedOperations is rewritten to Internal before
\* it is mapped, so it is answered 500 with the error kind internal; the arm of
\* the mapping for Solver(UnsupportedOperations) is never reached; and every
\* other error passes through the rewrite unchanged.
C8_UnsupportedOperationsRewritten ==
    /\ last_response.request # 0 /\ ~last_response.result.ok =>
        LET e == last_response.result.err
        IN /\ last_response.response # Unreachable
           /\ e = Solver("UnsupportedOperations") =>
                /\ last_response.response.status = 500
                /\ last_response.response.error_kind = "internal"
           /\ e # Solver("UnsupportedOperations") =>
                /\ rewrite_error(e) = e
                /\ last_response.response = map_error(e)
    /\ \A e \in ApiErrors :
        /\ rewrite_error(e).kind = "Internal" <=>
              (e.kind = "Internal" \/ e = Solver("UnsupportedOperations"))
        /\ e # Solver("UnsupportedOperations") => rewrite_error(e) = e
        /\ response_from_error(e) # Unreachable

\* C8's case: the solver reported UnsupportedOperations and the request was
\* answered.
C8_Witness ==
    /\ last_response.request # 0
    /\ ~last_response.result.ok
    /\ last_response.result.err = Solver("UnsupportedOperations")
    /\ last_response.response.status = 500

\* ------------------------------------------------------------------- C9
\* a body every part of which parses
ValidPayload(p) ==
    /\ \A i \in DOMAIN p.specs : ValidMatchSpec(p.specs[i])
    /\ \A i \in DOMAIN p.virtual_packages : parse_virtual_package(p.virtual_packages[i]).ok
    /\ \A i \in DOMAIN p.channels : Channel_from_str(p.channels[i]).ok
    /\ ValidPlatform(p.platform)

\* the input of the parse error e is an input of the body p that does not
\* parse, of the sort the validation error names
OffendingInput(p, variant, e) ==
    CASE variant = "MatchSpecs" ->
            \E i \in DOMAIN p.specs : e.input = p.specs[i] /\ ~ValidMatchSpec(p.specs[i])
      [] variant = "VirtualPackage" ->
            \E i \in DOMAIN p.virtual_packages :
                /\ e.input = p.virtual_packages[i]
                /\ ~parse_virtual_package(p.virtual_packages[i]).ok
      [] variant = "Channels" ->
            \E i \in DOMAIN p.channels :
                e.input = p.channels[i] /\ ~Channel_from_str(p.channels[i]).ok
      [] variant = "Platform" -> e.input = p.platform /\ ~ValidPlatform(p.platform)
      [] OTHER -> FALSE

\* the lookups made by request r that left something in the cache
TracesOf(r) ==
    {k \in DOMAIN active_writes : active_writes[k][1] = r}
    \cup {k \in DOMAIN cached_data : cached_data[k].value[1] = r}
    \cup {k \in DOMAIN last_set : last_set[k].value[1] = r}

\* C9: validation precedes all network work.  A request with an invalid match
\* spec, virtual package, channel or platform is answered 400 with a validation
\* error that carries the offending inputs, and no lookup, write slot or fetch
\* was started for it: only requests with a valid body have lookups.
C9_ValidationPrecedesNetwork ==
    /\ \A r \in Requests : pc[r] = "lookups" \/ lookup[r] # <<>> => ValidPayload(payload[r])
    /\ last_response.request # 0 /\ ~ValidPayload(last_response.payload) =>
        LET a == last_response
        IN /\ ~a.result.ok
           /\ a.result.err.kind = "Validation"
           /\ a.response.status = 400
           /\ a.response.error_kind = "validation"
           /\ a.response.additional_info.tag = "errors"
           /\ a.response.additional_info.errors # <<>>
           /\ \A i \in DOMAIN a.response.additional_info.errors :
                 OffendingInput(a.payload, a.result.err.variant,
                                a.response.additional_info.errors[i])
           /\ a.lookup = <<>>
           /\ a.available_packages = <<>>
           /\ TracesOf(a.request) = {}

\* C9's case: a request for the platform asdfasdf, otherwise valid, was
\* answered 400, while another request has left an entry in the cache.
C9_Witness ==
    /\ last_response.request # 0
    /\ last_response.payload.platform = "asdfasdf"
    /\ last_response.payload.channels = <<"c">>
    /\ last_response.response.status = 400
    /\ last_response.response.additional_info.errors
          = <<ParseError("asdfasdf", "invalid platform")>>
    /\ cached_data # EmptyMap

\* ------------------------------------------------------------------ C10
\* the lookups of the answered request that returned an error
FailedLookups(a) == {i \in DOMAIN a.lookup : a.lookup[i] = "failed"}

\* the key the i-th lookup of the answered request was for
FailedKey(a, i) == validate(a.payload).pairs[i]

PrecomputePanic == Internal("panicked while creating .solv file")

\* the answer to a failed download of the index at url
UnableToRetrieve(url) ==
    Response(400, "http", "unable to retrieve repodata.json", UrlInfo(url), <<>>)

\* C10 as stated: every failure while obtaining an index (network failure,
\* non-success status, decompression error, parse/load error of the downloaded
\* index) is answered 400 with the message 'unable to retrieve repodata.json'
\* and the URL of the index.
C10_EveryIndexFailureIsFetchError ==
    last_response.request # 0 =>
        \A i \in FailedLookups(last_response) :
            last_response.result.err # PrecomputePanic =>
                last_response.response = UnableToRetrieve(FailedKey(last_response, i))

\* C10, amended: a failed download of an index (network failure, non-success
\* status, decompression error) surfaces as the fetch error carrying the URL of
\* the index and is answered 400 with 'unable to retrieve repodata.json' and
\* that URL; a downloaded index that fails to load surfaces as an internal
\* error and is answered 500, without the URL.
C10_DownloadFailureIsFetchError ==
    /\ \A k \in Keys :
        /\ \A o \in {"network", "status", "decompress"} :
              /\ fetch_error(o, k) = FetchRepoDataJson(k, o)
              /\ response_from_error(fetch_error(o, k)) = UnableToRetrieve(k)
        /\ fetch_error("load", k).kind = "Internal"
        /\ response_from_error(fetch_error("load", k)) =
              Response(500, "internal", "", NoInfo, <<>>)
    /\ last_response.request # 0 =>
        \A i \in FailedLookups(last_response) :
            LET a == last_response
                k == FailedKey(a, i)
            IN /\ a.result.err \in {fetch_error(o, k) : o \in FetchOutcomes \ {"ok"}}
                                    \cup {PrecomputePanic}
               /\ a.response = response_from_error(a.result.err)
               /\ a.result.err.kind = "FetchRepoDataJson" => a.response = UnableToRetrieve(k)
               /\ a.result.err.kind = "Internal" =>
                     a.response.status = 500 /\ a.response.additional_info = NoInfo

\* C10's case: a downloaded index failed to load and the request was answered
\* 500.
C10_Witness ==
    /\ last_response.request # 0
    /\ FailedLookups(last_response) # {}
    /\ last_response.result.err = Internal("loading repo data")
    /\ last_response.response.status = 500

\* ------------------------------------------------- C4, C2: get_cached
\* lookup i of request r returns Found(v) from get_cached in this step
ReturnsFound(r, i, v) ==
    /\ lookup'[r][i] = "done"
    /\ available_packages'[r] = Append(available_packages[r], [pair |-> i, value |-> v])

\* lookup i of request r is at the top of the loop of get_cached and reads
\* cached_data in this step (lines 63-70)
ReadsCache(r, i) ==
    /\ i \in DOMAIN lookup[r]
    /\ i \in DOMAIN lookup'[r]
    /\ lookup[r][i] = "check"
    /\ lookup'[r][i] # "check"

\* C4: freshness.  After set published v for k at t, and no later set for k, a
\* get_cached(k) that reads the cache at an instant now <= t + expiration
\* returns Found(v), and one that reads it at now > t + expiration does not
\* return v, under any interleaving with gc and with operations on other keys.
C4_Freshness ==
    [][\A r \in Requests : \A i \in Positions :
          ReadsCache(r, i) /\ pairs[r][i] \in DOMAIN last_set =>
              LET published == last_set[pairs[r][i]]
              IN IF now <= published.at + Expiration
                 THEN ReturnsFound(r, i, published.value)
                 ELSE ~ReturnsFound(r, i, published.value)]_vars

\* C2: while a task holds the write token of k and there is no fresh entry of
\* k, a get_cached(k) of another task does not return NotFound; it is pending
\* until the holder has called set(token, v), and then it returns Found(v), the
\* value the holder published: a lookup that waited for the holder of the token
\* has not gone on to fetch k itself while v is the latest value published for
\* k and is still fresh.
C2_ReaderGetsPublishedValue ==
    \A l \in Lookups :
        LET k == KeyOf(l)
        IN /\ At(l) = "fetch" => TokenHolders(k) = {l}
           /\ At(l) = "waiting" => l \in DOMAIN awaited /\ awaited[l] # l
           /\ /\ l \in DOMAIN awaited
              /\ awaited[l][1] # l[1]
              /\ k \in DOMAIN last_set
              /\ last_set[k].value = awaited[l]
              /\ now <= last_set[k].at + Expiration
              => At(l) \notin {"fetch", "load", "precompute", "set_insert"}

\* ------------------------------------------------------------------- C6
\* the lookups that are in AvailablePackagesCache::get past a cache miss
Fetching == {"fetch", "load", "precompute", "set_insert", "set_release", "set_remove"}

\* C6: a get that failed (download error, load error, precompute panic) or was
\* cancelled publishes nothing, and once it has returned or been dropped there
\* is no write slot of its key in active_writes: every slot is that of a get
\* in progress that missed the cache, and every published entry is that of a
\* get that reached set.
C6_FailedGetLeavesNoSlot ==
    /\ \A k \in DOMAIN active_writes :
          /\ active_writes[k] \in Lookups
          /\ KeyOf(active_writes[k]) = k
          /\ At(active_writes[k]) \in Fetching
    /\ last_response.request # 0 =>
          \A i \in FailedLookups(last_response) :
              \A k \in DOMAIN last_set : last_set[k].value # <<last_response.request, i>>

\* ------------------------------------------------------------------- C1
\* the holder of the write token of k dropped it without calling set: the slot
\* of k is that of a lookup that is no more
TokenDropped(k) == k \in DOMAIN active_writes /\ active_writes[k] \notin Lookups

\* lookup i of request r is in get_cached
InGetCached(r, i) ==
    i \in DOMAIN lookup[r] /\ lookup[r][i] \in {"check", "entry", "waiting"}

\* C1: when the holder of the write token of k dropped it without calling set,
\* every get_cached(k) called afterwards returns (Found, or NotFound with a new
\* token), or is dropped with its task.
C1_GetCachedReturnsAfterDrop ==
    \A r \in Requests : \A i \in Positions :
        [](InGetCached(r, i) /\ TokenDropped(pairs[r][i]) => <>~InGetCached(r, i))

\* ------------------------------------------------------------------ C11
\* C11: for every bound N >= 1 on the concurrent lookups of a request and every
\* order in which they complete, the list of index handles given to the solver
\* is in the order of the expanded (channel, subdir) sequence: the j-th handle
\* is that of the j-th pair.
C11_HandlesInOriginalOrder ==
    /\ \A r \in Requests : \A j \in DOMAIN available_packages[r] :
          (\A i \in DOMAIN lookup[r] : lookup[r][i] = "done")
              => available_packages[r][j].pair = j
    /\ last_response.request # 0 /\ last_response.result.ok =>
          \A j \in DOMAIN last_response.available_packages :
              last_response.available_packages[j].pair = j

\* ------------------------------------------------------------------ C12
\* the malformed match specs and channels of a body, in input order
MalformedSpecs(p) == SelectSeq(p.specs, LAMBDA x : ~ValidMatchSpec(x))
MalformedChannels(p) == SelectSeq(p.channels, LAMBDA x : ~Channel_from_str(x).ok)

\* the inputs of the parse errors a response lists
ListedInputs(response) ==
    [i \in DOMAIN response.additional_info.errors |->
        response.additional_info.errors[i].input]

\* C12: a request rejected by validation gets one response that reports all
\* the malformed inputs it contains: every malformed match spec and every
\* malformed channel of the request is listed, one error each, in input order.
C12_AllMalformedInputsListed ==
    last_response.request # 0 /\ ~ValidPayload(last_response.payload) =>
        LET a == last_response
            variant == a.result.err.variant
        IN /\ MalformedSpecs(a.payload) # <<>> =>
                 variant = "MatchSpecs" /\ ListedInputs(a.response) = MalformedSpecs(a.payload)
           /\ MalformedChannels(a.payload) # <<>> =>
                 variant = "Channels" /\ ListedInputs(a.response) = MalformedChannels(a.payload)

\* ------------------------------------------------------------------ C13
\* the positions of the '=' of a string
Equals(s) == {i \in DOMAIN s : s[i] = "="}

\* the position of the n-th '=' of a string that has one
NthEquals(s, n) ==
    CHOOSE i \in Equals(s) : Cardinality({j \in Equals(s) : j < i}) = n - 1

\* the end of the n-th field of a string: before its n-th '=', or the string's
FieldEnd(s, n) == IF Cardinality(Equals(s)) >= n THEN NthEquals(s, n) - 1 ELSE Len(s)

\* the n-th field of a string that has at least n - 1 '='
Field(s, n) == SubSeq(s, IF n = 1 THEN 1 ELSE NthEquals(s, n - 1) + 1, FieldEnd(s, n))

\* the version field of an argument, "0" when there is none
VersionField(s) == IF Cardinality(Equals(s)) >= 1 THEN Field(s, 2) ELSE <<"0">>

\* the build field of an argument, "0" when there is none
BuildField(s) == IF Cardinality(Equals(s)) >= 2 THEN Field(s, 3) ELSE <<"0">>

\* parse_virtual_package has returned
Parsed == vp_parsed # NotParsed

\* C13 as stated: parse_virtual_package accepts name[=version[=build]], a
\* missing version and a missing build default to 0, every input with more than
\* two '=' is rejected with the error 'too many equals signs', and the validity
\* of the name is decided by the package-name constructor.
C13_TooManyEqualsAlwaysReported ==
    Parsed =>
        /\ Cardinality(Equals(vp_input)) > 2 =>
              ~vp_parsed.ok /\ vp_parsed.error = "too many equals signs"
        /\ vp_parsed.ok =>
              /\ vp_parsed.name = Field(vp_input, 1)
              /\ vp_parsed.version = VersionField(vp_input)
              /\ vp_parsed.build_string = BuildField(vp_input)
        /\ Cardinality(Equals(vp_input)) <= 2 /\ ValidVersion(VersionField(vp_input)) =>
              (vp_parsed.ok <=> ValidPackageName(Field(vp_input, 1)))

\* C13, amended: parse_virtual_package accepts name[=version[=build]], a
\* missing version and a missing build default to 0; the version is parsed
\* first, so every input with more than two '=' is rejected, with the error
\* 'too many equals signs' when its version field is a version and with the
\* error of the version otherwise; the validity of the name is decided by the
\* package-name constructor.
C13_TooManyEqualsAfterVersion ==
    Parsed =>
        /\ ~vp_parsed.ok => vp_parsed.input = vp_input
        /\ ~ValidVersion(VersionField(vp_input)) =>
              ~vp_parsed.ok /\ vp_parsed.error = "invalid version"
        /\ Cardinality(Equals(vp_input)) > 2 /\ ValidVersion(VersionField(vp_input)) =>
              ~vp_parsed.ok /\ vp_parsed.error = "too many equals signs"
        /\ vp_parsed.ok =>
              /\ vp_parsed.name = Field(vp_input, 1)
              /\ vp_parsed.version = VersionField(vp_input)
              /\ vp_parsed.build_string = BuildField(vp_input)
        /\ Cardinality(Equals(vp_input)) <= 2 /\ ValidVersion(VersionField(vp_input)) =>
              /\ vp_parsed.ok <=> ValidPackageName(Field(vp_input, 1))
              /\ ~vp_parsed.ok => vp_parsed.error = "invalid package name"

\* C13's case: an argument with three '=' whose version field is a version was
\* rejected for its equals signs.
C13_Witness ==
    /\ Parsed
    /\ Cardinality(Equals(vp_input)) > 2
    /\ ValidVersion(VersionField(vp_input))
    /\ ~vp_parsed.ok
    /\ vp_parsed.error = "too many equals signs"

\* ------------------------------------------------------------------ C15
\* lookup l has waited for the writer that published the latest value of its
\* key, and that value is still fresh
AwaitedPublished(l) ==
    /\ l \in DOMAIN awaited
    /\ KeyOf(l) \in DOMAIN last_set
    /\ last_set[KeyOf(l)].value = awaited[l]
    /\ now <= last_set[KeyOf(l)].at + Expiration

\* C15: set inserts (v, now) into cached_data, then releases the writer lock,
\* then removes the slot: the guard is held until the value is published and
\* the slot is there until the guard is released; so a reader that waited on
\* the lock and was awakened by the release finds the entry at the top of its
\* loop, while v is fresh.
C15_SetOrderServesWaiters ==
    /\ \A l \in Lookups :
          /\ At(l) \in {"set_release", "set_remove"} =>
                KeyOf(l) \in DOMAIN last_set /\ last_set[KeyOf(l)].value = l
          /\ At(l) \in {"set_insert", "set_release", "set_remove"} =>
                KeyOf(l) \in DOMAIN active_writes /\ active_writes[KeyOf(l)] = l
    /\ \A l \in Lookups :
          At(l) = "check" /\ AwaitedPublished(l) =>
              /\ KeyOf(l) \in DOMAIN cached_data
              /\ cached_data[KeyOf(l)].value = awaited[l]

\* ------------------------------------------------------------------ C16
\* there is a fresh entry of key k
FreshEntry(k) == k \in DOMAIN cached_data /\ now <= cached_data[k].at + Expiration

\* C16: no write slot is installed and no token issued for k while a fresh
\* entry of k exists: a fresh entry and a slot of k coexist only inside the set
\* that published the entry; and after a set of k at t no fetch of k starts
\* before t + expiration.
C16_NoSlotWhileFresh ==
    \A k \in Keys :
        /\ FreshEntry(k) /\ k \in DOMAIN active_writes =>
              /\ active_writes[k] \in Lookups
              /\ At(active_writes[k]) \in {"set_release", "set_remove"}
              /\ cached_data[k].value = active_writes[k]
        /\ k \in DOMAIN last_set /\ now <= last_set[k].at + Expiration =>
              \A l \in Lookups : KeyOf(l) = k => At(l) \notin {"fetch", "load", "precompute"}

\* ------------------------------------------------------------------ C17
\* lookup i of request r has returned from get_cached, or is no more
Returned(r, i) == i \notin DOMAIN lookup[r] \/ lookup[r][i] \notin {"check", "entry", "waiting"}

\* C17: a reader that is waiting on the writer lock of k does not wait for
\* ever: when the writer fails and releases without publishing, the reader
\* restarts its loop, sees no entry and no writer and returns NotFound with a
\* new token (or returns Found, when the writer published).
C17_WaiterReturns ==
    \A r \in Requests : \A i \in Positions :
        [](i \in DOMAIN lookup[r] /\ lookup[r][i] = "waiting" => <>Returned(r, i))

\* ------------------------------------------------------------------ C18
\* the locks of shared state a suspended lookup holds: the write lock of a
\* shard of active_writes (with the Entry) and the writer lock of its key
HoldsShardLock(l) == At(l) = "waiting"

\* C18: no lock of cached_data or of active_writes is held by a task across a
\* suspension point; a suspended lookup holds at most the writer lock of its
\* key.
C18_NoMapLockAcrossAwait ==
    \A l \in Lookups : At(l) \in Suspended => ~HoldsShardLock(l)

\* ------------------------------------------------------------- C19, C20
\* gc takes a step: it marks keys, or removes the first of those it marked
GcStep == expired_keys' # expired_keys

\* lookup l returns from set in this step
SetReturns(l) ==
    /\ l \in Lookups
    /\ At(l) = "set_remove"
    /\ lookup'[l[1]][l[2]] = "done"

\* C19: gc leaves active_writes and every outstanding token as they are; and a
\* writer that holds the token of k while k's previous entry expires, removed
\* by gc or not, publishes through set, after which there is one entry of k,
\* the new value with the new instant (while it is fresh).
C19_GcLeavesWritersAlone ==
    [][/\ GcStep => UNCHANGED <<active_writes, lookup, awaited>>
       /\ \A r \in Requests : \A i \in Positions :
             /\ SetReturns(<<r, i>>)
             /\ now <= last_set[pairs[r][i]].at + Expiration
             => /\ pairs[r][i] \in DOMAIN cached_data'
                /\ cached_data'[pairs[r][i]] = last_set[pairs[r][i]]
                /\ last_set[pairs[r][i]].value = <<r, i>>]_vars

\* C20: gc running concurrently with set never removes an entry that is fresh
\* at the moment of the removal: an entry republished between the moment gc
\* marked its key and the removal of the key survives.
C20_GcRemovesNoFreshEntry ==
    [][\A k \in DOMAIN cached_data :
          k \notin DOMAIN cached_data' => now > cached_data[k].at + Expiration]_vars

\* ------------------------------------------------------------------ C21
\* what a reader of the entry map data makes of key k at an instant (lines
\* 63-70): the value of a fresh entry, or nothing
Outcome(data, k, instant) ==
    IF k \in DOMAIN data /\ ~is_stale(data[k], instant)
    THEN <<"Found", data[k].value>>
    ELSE <<"NotFound">>

\* C21: the sweeper is purely janitorial.  last_set is the entry map of the
\* server on which gc never runs (set inserts into it, nothing is removed).
\* When every gc runs between the steps of the operations, a reader makes the
\* same of every key in cached_data as in the never-swept map, at every moment;
\* and every get_cached that reads the cache returns what the never-swept map
\* gives: Found(v) of its fresh entry, and no value (it goes on to the write
\* slot) when the entry is stale or absent, swept or not.
C21_SweeperIsJanitorial ==
    [][/\ \A k \in Keys :
            /\ Outcome(cached_data, k, now) = Outcome(last_set, k, now)
            /\ Outcome(cached_data', k, now') = Outcome(last_set', k, now')
       /\ \A r \in Requests : \A i \in DOMAIN lookup[r] :
            ReadsCache(r, i) =>
                LET never_swept == Outcome(last_set, pairs[r][i], now)
                IN IF never_swept[1] = "Found"
                   THEN ReturnsFound(r, i, never_swept[2])
                   ELSE lookup'[r][i] = "entry"]_vars

\* C21's case: an entry went stale and gc removed it, and a get_cached of its
\* key found nothing and fetches, while the entry of another key, published
\* later, is fresh and in the map.
C21_Witness ==
    \E k1 \in Keys : \E k2 \in Keys :
        /\ k1 \in DOMAIN last_set /\ k1 \notin DOMAIN cached_data
        /\ k2 \in DOMAIN cached_data /\ ~is_stale(cached_data[k2], now)
        /\ \E l \in Lookups : KeyOf(l) = k1 /\ At(l) = "fetch"
\* ------------------------------------------------------------------ C22
\* the subdirs a channel of a request stands for
Subdirs(channel, target_platform) ==
    IF channel.platforms = <<>> THEN <<target_platform, "noarch">>
    ELSE channel.platforms[1]

RECURSIVE PairsBefore(_, _, _)
\* the number of pairs the channels before the c-th stand for
PairsBefore(channels, c, target_platform) ==
    IF c <= 1 THEN 0
    ELSE PairsBefore(channels, c - 1, target_platform)
         + Len(Subdirs(channels[c - 1], target_platform))

\* C22: the channel x subdir expansion.  The pairs of a valid request are,
\* for its channels in the order of the request, the subdirs written after the
\* channel in the order written, or (target platform, noarch) when none is
\* written: the j-th subdir of the c-th channel is the pair at the place after
\* all the pairs of the channels before and the j - 1 subdirs before, a pair
\* that occurs twice is kept twice, and there is one lookup per pair.
C22_ExpansionKeepsOrderAndDuplicates ==
    pc[1] = "lookups" =>
        LET channels == parsed_channels(payload[1].channels)
            target == payload[1].platform
        IN /\ Len(channels) = Len(payload[1].channels)
           /\ Len(pairs[1]) = PairsBefore(channels, Len(channels) + 1, target)
           /\ \A c \in 1 .. Len(channels) :
                 \A j \in 1 .. Len(Subdirs(channels[c], target)) :
                    pairs[1][PairsBefore(channels, c, target) + j] =
                        <<channels[c].name, Subdirs(channels[c], target)[j]>>
           /\ DOMAIN lookup[1] = DOMAIN pairs[1]

\* C22's case: three channels, the first with the default subdirs, the second
\* with two written in another order, the third with the same subdir twice.
C22_Witness ==
    /\ pc[1] = "lookups"
    /\ payload[1].platform = "linux-64"
    /\ payload[1].channels = <<"c", "c[noarch,linux-64]", "c[noarch,noarch]">>
    /\ pairs[1] = <<<<"c", "linux-64">>, <<"c", "noarch">>, <<"c", "noarch">>,
                    <<"c", "linux-64">>, <<"c", "noarch">>, <<"c", "noarch">>>>
\* ------------------------------------------------------------------ C23
\* the pairs of request r whose lookup has returned a value, as collected
Collected(r) == {available_packages[r][n].pair : n \in DOMAIN available_packages[r]}

\* C23: bounded parallelism.  At every moment at most conc lookups of a
\* request are in flight; every pair is looked up once: a value is collected
\* for a pair when its lookup has returned and never twice; and a request that
\* got as far as the solver (it is answered with packages or with an error of
\* the solver) has looked up every pair of its expansion, once each.
C23_BoundedLookupsEachPairOnce ==
    /\ \A r \in Requests :
          /\ Cardinality({i \in DOMAIN lookup[r] : lookup[r][i] \in InFlight}) <= conc
          /\ DOMAIN lookup[r] = DOMAIN pairs[r]
          /\ Collected(r) = {i \in DOMAIN lookup[r] : lookup[r][i] = "done"}
          /\ Len(available_packages[r]) = Cardinality(Collected(r))
    /\ LET a == last_response
       IN a.request # 0 /\ (a.result.ok \/ a.result.err.kind = "Solver") =>
             /\ a.lookup # <<>>
             /\ \A i \in DOMAIN a.lookup : a.lookup[i] = "done"
             /\ Len(a.available_packages) = Len(a.lookup)
             /\ {a.available_packages[n].pair : n \in DOMAIN a.available_packages}
                    = DOMAIN a.lookup

\* C23's case: a request with two pairs was solved after both were looked up,
\* and another has a lookup in flight while its second pair waits in the
\* stream for the first to return.
C23_Witness ==
    /\ last_response.request # 0
    /\ last_response.result.ok
    /\ Len(last_response.lookup) = 2
    /\ \E r \in Requests :
          /\ Len(lookup[r]) = 2
          /\ lookup[r][1] \in Suspended
          /\ lookup[r][2] = "stream"
\* ------------------------------------------------------------------ C24
\* the errors a lookup of url can return
LookupErrors(url) ==
    {fetch_error(o, url) : o \in FetchOutcomes \ {"ok"}} \cup {PrecomputePanic}

\* C24: the first failure ends the request.  When a lookup of a request has
\* failed, the request is answered with the error of that lookup, the only one
\* that failed; the pairs still in the stream are never looked up, the lookups
\* in flight are dropped with the stream, and the solver has not run (no
\* packages, no error of the solver); nothing of the request goes on after its
\* answer.  The solver runs, and the request is answered with its packages or
\* its error, only when every lookup of the request has returned a value.
C24_FirstFailureEndsRequest ==
    /\ LET a == last_response
       IN a.request # 0 =>
             /\ \A i \in FailedLookups(a) :
                   /\ ~a.result.ok
                   /\ a.result.err \in LookupErrors(FailedKey(a, i))
                   /\ FailedLookups(a) = {i}
                   /\ \A j \in DOMAIN a.lookup \ {i} :
                         a.lookup[j] \in {"done", "dropped", "stream"}
                   /\ a.response.packages = <<>>
             /\ a.result.ok \/ a.result.err.kind = "Solver"
                   \/ a.result.err = Internal("solver thread panicked") =>
                   /\ a.lookup # <<>>
                   /\ \A i \in DOMAIN a.lookup : a.lookup[i] = "done"
             /\ pc[a.request] = "done"
    /\ \A r \in Requests :
          pc[r] \in {"done", "cancelled"} => lookup[r] = <<>> /\ pairs[r] = <<>>

\* C24's case: the second lookup of a request failed while the first was
\* still in flight; the first was dropped and the request answered.
C24_Witness ==
    /\ last_response.request # 0
    /\ Len(last_response.lookup) = 2
    /\ last_response.lookup[1] = "dropped"
    /\ last_response.lookup[2] = "failed"
    /\ last_response.result.err \in LookupErrors(FailedKey(last_response, 2))
\* ------------------------------------------------------------------ C25
\* the JoinError of the blocking task of the solver, as solve_environment_inner
\* returns it
SolverPanic == Internal("solver thread panicked")

\* lookup l has published a value that is in the cache or was the latest set
Published(l) ==
    \/ \E k \in DOMAIN cached_data : cached_data[k].value = l
    \/ \E k \in DOMAIN last_set : last_set[k].value = l

\* C25: a panic in a blocking task.  The panic of the precompute and the
\* panic of the solver come back to the request that awaited the task as an
\* Internal error, answered 500 with the kind internal and no packages, and the
\* task of the request ends as every answered request does.  The lookup whose
\* precompute panicked has published no entry and holds its write guard no
\* more; the solver had been given the values of all lookups when it panicked.
C25_PanicBecomesInternalError ==
    LET a == last_response
    IN a.request # 0 /\ ~a.result.ok /\ a.result.err \in {PrecomputePanic, SolverPanic} =>
          /\ a.result.err.kind = "Internal"
          /\ a.response.status = 500
          /\ a.response.error_kind = "internal"
          /\ a.response.packages = <<>>
          /\ pc[a.request] = "done"
          /\ a.result.err = PrecomputePanic =>
                /\ solver = "Libsolvc"
                /\ \E i \in DOMAIN a.lookup : FailedLookups(a) = {i}
                /\ \A i \in FailedLookups(a) :
                      /\ ~Published(<<a.request, i>>)
                      /\ ~WriteGuardHeld(<<a.request, i>>)
          /\ a.result.err = SolverPanic =>
                /\ FailedLookups(a) = {}
                /\ a.lookup # <<>>
                /\ \A i \in DOMAIN a.lookup : a.lookup[i] = "done"

\* C25's case: the precompute of a lookup panicked while another request was
\* waiting for the value; the request of the lookup is answered 500.
C25_Witness ==
    /\ last_response.request # 0
    /\ last_response.result.err = PrecomputePanic
    /\ last_response.response.status = 500
    /\ \E l \in Lookups :
          /\ At(l) = "waiting"
          /\ awaited[l][1] = last_response.request
          /\ awaited[l][2] \in FailedLookups(last_response)
\* ------------------------------------------------------------------ C26
\* where a lookup does the CPU-bound work of a request: the index is read and
\* deserialized into records ("load") and the .solv file is made of the
\* records ("precompute"); the solver runs after the last lookup
CpuBound == {"load", "precompute"}

\* C26: CPU-bound work runs on the blocking pool.  No task occupies a worker
\* thread of the async runtime with CPU-bound work: a lookup that is parsing
\* the index or making the .solv file is suspended, awaiting the blocking task
\* that does the work, and is not being polled.
C26_CpuBoundWorkOffExecutor ==
    \A l \in Lookups : At(l) \in CpuBound => At(l) \in Suspended /\ At(l) \notin Busy
\* ------------------------------------------------------------------ C27
\* lookup l is at active_writes.entry(k) and its thread is kept from taking
\* the lock of k's shard by lookup other, which holds it
BlockedBy(l, other) ==
    /\ At(l) = "entry"
    /\ At(other) = "waiting"
    /\ shard_of[KeyOf(other)] = shard_of[KeyOf(l)]

\* C27: lookups of distinct keys are independent.  A get_cached(k) that found
\* no fresh entry of k and comes to active_writes while k has no write slot
\* takes the slot and returns NotFound(token) at once: no lookup of another
\* key, writer or waiting reader, keeps it from doing so.
C27_DistinctKeysIndependent ==
    \A l \in Lookups : \A other \in Lookups :
        /\ KeyOf(l) \notin DOMAIN active_writes
        /\ ~FreshEntry(KeyOf(l))
        /\ KeyOf(other) # KeyOf(l)
        => ~BlockedBy(l, other)
\* ------------------------------------------------------------------ C28
\* lookups i and j of request r deadlock the request: j is suspended in
\* read().await with the lock of its shard, i is being polled and its thread
\* is blocked on that lock (in entry() or in remove()); the task polls j again
\* only when the poll of i returns
SelfDeadlock(r, i, j) ==
    /\ i # j
    /\ lookup[r][j] = "waiting"
    /\ lookup[r][i] \in {"entry", "set_remove"}
    /\ shard_of[pairs[r][i]] = shard_of[pairs[r][j]]

\* C28: a request with a duplicate key completes.  When two lookups of one
\* request are for the same key and both are in flight, neither keeps the
\* other from going on: the request never deadlocks on its own lookups.
C28_DuplicateKeysComplete ==
    \A r \in Requests : \A i \in DOMAIN lookup[r] : \A j \in DOMAIN lookup[r] :
        pairs[r][i] = pairs[r][j] => ~SelfDeadlock(r, i, j)
\* ------------------------------------------------------------------ C29
\* lookup i of request r is in GenericCache::set
InSet(r, i) ==
    i \in DOMAIN lookup[r] /\ lookup[r][i] \in {"set_insert", "set_release", "set_remove"}

\* requests are being handled, gc is not running, and nothing of any request
\* can happen: no task can take a step and none can be dropped
Deadlock ==
    /\ \E r \in Requests : pc[r] = "lookups"
    /\ expired_keys = <<>>
    /\ ~ENABLED (\E r \in Requests : RequestStep(r) \/ Cancel(r))

\* C29: progress of the cache protocol, whatever the number of worker threads
\* (here one).  Under fair scheduling every call of set returns, however many
\* readers wait for its key, and no reachable state is a deadlock.
C29_CacheProtocolProgress ==
    /\ \A r \in Requests : \A i \in Positions : [](InSet(r, i) => <>~InSet(r, i))
    /\ []~Deadlock
====
